---- MODULE Spec2Model ----
(***************************************************************************)
(* Model of the cipherforge library: the CipherCraft generator             *)
(* (src/index.js, first revision) and the CipherForge scorer               *)
(* (src/unnamed/part_001, the revision whose formulas the specification    *)
(* fixes as the reference scheme).                                         *)
(*                                                                         *)
(* Strings are sequences of one-character strings.  JavaScript numbers     *)
(* that can be fractional are exact rationals [n |-> , d |-> ] in lowest   *)
(* terms; the floating-point rounding of a quotient is not modelled.       *)
(***************************************************************************)
EXTENDS Integers, Sequences, FiniteSets, TLC

VARIABLES
    op,          \* the operation the state belongs to
    password,    \* argument of CipherForge.Test
    dictionary,  \* this.dictionary of the scorer (a set of strings)
    report,      \* value returned by Test, or NoReport
    charset,     \* BasicPassword: charset
    length,      \* BasicPassword: length
    i,           \* BasicPassword: loop counter
    out,         \* BasicPassword: local `password`
    genpc,       \* generator call: "idle", "loop", "returned", "threw"
    rand,        \* RandInt call: its argument, its random bytes, its result
    error,       \* name of the exception that ended the last call, or "none"
    resource,    \* contents of the dictionary file, or Missing
    forge        \* scorer instance: "none", "constructed", "threw"

vars == <<op, password, dictionary, report, charset, length, i, out, genpc,
          rand, error, resource, forge>>

scorerVars == <<password, dictionary, report>>
genVars    == <<charset, length, i, out, genpc, rand>>
ctorVars   == <<resource, forge>>

(***************************************************************************)
(* Bounds of the explored inputs.                                          *)
(***************************************************************************)
MaxShortLen == 3     \* passwords over Sigma of every length up to this
MaxRunLen   == 22    \* runs of one repeated character up to this length
MaxTokens   == 6     \* space-separated word lists up to this many words

(***************************************************************************)
(* Characters and character classes of the regular expressions.            *)
(***************************************************************************)
LowerSeq == <<"a","b","c","d","e","f","g","h","i","j","k","l","m",
              "n","o","p","q","r","s","t","u","v","w","x","y","z">>
UpperSeq == <<"A","B","C","D","E","F","G","H","I","J","K","L","M",
              "N","O","P","Q","R","S","T","U","V","W","X","Y","Z">>
DigitSeq == <<"0","1","2","3","4","5","6","7","8","9">>

Range(s) == { s[k] : k \in DOMAIN s }

LowerChars == Range(LowerSeq)      \* /[a-z]/
UpperChars == Range(UpperSeq)      \* /[A-Z]/
DigitChars == Range(DigitSeq)      \* /\d/
WordChars  == LowerChars \cup UpperChars \cup DigitChars \cup {"_"}  \* /\w/

\* /\W/ : any character that is not a word character
IsNonWord(c) == c \notin WordChars

\* the class /[!@#$%^&*()_+\-=\[\]{}|;':",.<>\/?]+/ of the scorer
SpecialChars ==
    {"!","@","#","$","%","^","&","*","(",")","_","+","-","=","[","]",
     "{","}","|",";","'",":","\"",",",".","<",">","/","?"}

\* String.prototype.toLowerCase, character by character
LowerOf(c) ==
    IF c \in UpperChars
    THEN LowerSeq[CHOOSE k \in DOMAIN UpperSeq : UpperSeq[k] = c]
    ELSE c

toLowerCase(s) == [k \in DOMAIN s |-> LowerOf(s[k])]

\* RegExp.prototype.test for a single-character class
RegexTest(class, s) == \E k \in DOMAIN s : s[k] \in class

(***************************************************************************)
(* Exact rational arithmetic for JavaScript numbers.                       *)
(***************************************************************************)
RECURSIVE Gcd(_, _)
Gcd(a, b) == IF b = 0 THEN a ELSE Gcd(b, a % b)

Abs(a) == IF a < 0 THEN -a ELSE a

RatNorm(n, d) ==
    LET g == Gcd(Abs(n), Abs(d))
        s == IF d < 0 THEN -1 ELSE 1
    IN  [n |-> (s * n) \div g, d |-> (s * d) \div g]

Num(k) == [n |-> k, d |-> 1]

RatAdd(a, b) == RatNorm(a.n * b.d + b.n * a.d, a.d * b.d)
RatMul(a, b) == RatNorm(a.n * b.n, a.d * b.d)
RatDiv(a, b) == RatNorm(a.n * b.d, a.d * b.n)
RatLeq(a, b) == a.n * b.d <= b.n * a.d
RatGeq(a, b) == RatLeq(b, a)

(***************************************************************************)
(* CipherForge: the four sub-scores.                                       *)
(***************************************************************************)
minLength == 8
maxLength == 20

\* variant of calculateLengthScore: the interpolation carries a constant
\* offset of 25 (the form of _calculateLengthScore, src/index.js:460)
calculateLengthScoreOffset(pw) ==
    LET len == Len(pw)
    IN  IF len < minLength THEN Num(0)
        ELSE IF len > maxLength THEN Num(50)
        ELSE RatAdd(RatMul(RatDiv(Num(len - minLength),
                                  Num(maxLength - minLength)), Num(50)),
                    Num(25))

calculateLengthScore(pw) ==
    LET len == Len(pw)
    IN  IF len < minLength THEN Num(0)
        ELSE IF len > maxLength THEN Num(50)
        ELSE RatMul(RatDiv(Num(len - minLength), Num(maxLength - minLength)),
                    Num(50))

\* set.test(password) for the k-th regular expression of characterSets:
\* /[a-z]/, /[A-Z]/, /\d/, /\W/
characterSetTest(k, pw) ==
    CASE k = 1 -> RegexTest(LowerChars, pw)
      [] k = 2 -> RegexTest(UpperChars, pw)
      [] k = 3 -> RegexTest(DigitChars, pw)
      [] k = 4 -> \E j \in DOMAIN pw : IsNonWord(pw[j])

RECURSIVE diversityReduce(_, _, _)
diversityReduce(score, k, pw) ==
    IF k > 4 THEN score
    ELSE diversityReduce(score + (IF characterSetTest(k, pw) THEN 25 ELSE 0),
                         k + 1, pw)

\* variant of calculateDiversityScore: three digits in a row or three
\* consecutive letters of the alphabet reset the score (the form of
\* _calculateDiversityScore, src/index.js:483-487)
hasNumberSequence(pw) ==
    \E j \in 1..(Len(pw) - 2) : \A k \in j..(j + 2) : pw[k] \in DigitChars

hasLetterSequence(pw) ==
    \E j \in 1..(Len(pw) - 2) : \E k \in 1..(Len(LowerSeq) - 2) :
        \A m \in 0..2 : LowerOf(pw[j + m]) = LowerSeq[k + m]

calculateDiversityScorePenalised(pw) ==
    IF hasNumberSequence(pw) \/ hasLetterSequence(pw)
    THEN Num(0)
    ELSE Num(diversityReduce(0, 1, pw))

calculateDiversityScore(pw) == Num(diversityReduce(0, 1, pw))

calculateSpecialCharactersScore(pw) ==
    IF RegexTest(SpecialChars, pw) THEN Num(25) ELSE Num(0)

\* String.prototype.split(/\W+/): the pieces between maximal runs of
\* non-word characters; a run at either end leaves an empty piece there,
\* and the empty string splits into one empty piece.
RECURSIVE SplitFrom(_, _, _, _)
SplitFrom(s, k, cur, acc) ==
    IF k > Len(s) THEN Append(acc, cur)
    ELSE IF IsNonWord(s[k])
         THEN IF k > 1 /\ IsNonWord(s[k - 1])
              THEN SplitFrom(s, k + 1, cur, acc)
              ELSE SplitFrom(s, k + 1, <<>>, Append(acc, cur))
         ELSE SplitFrom(s, k + 1, Append(cur, s[k]), acc)

SplitNonWord(s) == SplitFrom(s, 1, <<>>, <<>>)

\* Array.prototype.filter
RECURSIVE FilterHas(_, _)
FilterHas(words, dict) ==
    IF words = <<>> THEN <<>>
    ELSE LET rest == FilterHas(Tail(words), dict)
         IN  IF Head(words) \in dict THEN <<Head(words)>> \o rest ELSE rest

Max(a, b) == IF a >= b THEN a ELSE b

\* variant of calculateDictionaryScore: the penalty is not floored at 0
calculateDictionaryScoreNoFloor(pw, dict) ==
    LET matchingWords == FilterHas(SplitNonWord(toLowerCase(pw)), dict)
    IN  Num(50 - Len(matchingWords) * 10)

calculateDictionaryScore(pw, dict) ==
    LET lowercasePassword == toLowerCase(pw)
        wordsInPassword   == SplitNonWord(lowercasePassword)
        matchingWords     == FilterHas(wordsInPassword, dict)
    IN  Num(Max(0, 50 - Len(matchingWords) * 10))

(***************************************************************************)
(* CipherForge.Test                                                        *)
(***************************************************************************)
NoReport == [isSecure |-> FALSE, totalScore |-> Num(-1), details |-> <<>>]

\* variant of Test: each sub-score weighted by 0.25 and the verdict taken
\* at 52 (the form of Test, src/index.js:127-131)
TestReportWeighted(pw, dict) ==
    LET quarter                == [n |-> 1, d |-> 4]
        lengthScore            == calculateLengthScore(pw)
        diversityScore         == calculateDiversityScore(pw)
        specialCharactersScore == calculateSpecialCharactersScore(pw)
        dictionaryScore        == calculateDictionaryScore(pw, dict)
        totalScore ==
            RatAdd(RatAdd(RatAdd(RatMul(lengthScore, quarter),
                                 RatMul(diversityScore, quarter)),
                          RatMul(specialCharactersScore, quarter)),
                   RatMul(dictionaryScore, quarter))
    IN  [isSecure   |-> RatGeq(totalScore, Num(52)),
         totalScore |-> totalScore,
         details    |-> [lengthScore            |-> lengthScore,
                         diversityScore         |-> diversityScore,
                         specialCharactersScore |-> specialCharactersScore,
                         dictionaryScore        |-> dictionaryScore]]

TestReport(pw, dict) ==
    LET lengthScore            == calculateLengthScore(pw)
        diversityScore         == calculateDiversityScore(pw)
        specialCharactersScore == calculateSpecialCharactersScore(pw)
        dictionaryScore        == calculateDictionaryScore(pw, dict)
        totalScore == RatAdd(RatAdd(RatAdd(lengthScore, diversityScore),
                                    specialCharactersScore), dictionaryScore)
    IN  [isSecure   |-> RatGeq(totalScore, Num(75)),
         totalScore |-> totalScore,
         details    |-> [lengthScore            |-> lengthScore,
                         diversityScore         |-> diversityScore,
                         specialCharactersScore |-> specialCharactersScore,
                         dictionaryScore        |-> dictionaryScore]]

(***************************************************************************)
(* CipherForge constructor and loadDictionary.                             *)
(***************************************************************************)
\* the dictionary file: absent, or present with contents `data`
Missing == [exists |-> FALSE, data |-> <<>>]
File(data) == [exists |-> TRUE, data |-> data]

WhiteSpace == {" ", "\t", "\n", "\r"}

\* String.prototype.trim
RECURSIVE TrimLeft(_)
TrimLeft(s) ==
    IF s # <<>> /\ Head(s) \in WhiteSpace THEN TrimLeft(Tail(s)) ELSE s

RECURSIVE TrimRight(_)
TrimRight(s) ==
    IF s # <<>> /\ s[Len(s)] \in WhiteSpace
    THEN TrimRight(SubSeq(s, 1, Len(s) - 1))
    ELSE s

trim(s) == TrimRight(TrimLeft(s))

\* String.prototype.split(/\r?\n/)
RECURSIVE SplitLinesFrom(_, _, _, _)
SplitLinesFrom(s, k, cur, acc) ==
    IF k > Len(s) THEN Append(acc, cur)
    ELSE IF s[k] = "\n"
         THEN SplitLinesFrom(s, k + 1, <<>>, Append(acc, cur))
    ELSE IF s[k] = "\r" /\ k < Len(s) /\ s[k + 1] = "\n"
         THEN SplitLinesFrom(s, k + 2, <<>>, Append(acc, cur))
    ELSE SplitLinesFrom(s, k + 1, Append(cur, s[k]), acc)

SplitLines(s) == SplitLinesFrom(s, 1, <<>>, <<>>)

RECURSIVE FilterNonBlank(_)
FilterNonBlank(lines) ==
    IF lines = <<>> THEN <<>>
    ELSE LET rest == FilterNonBlank(Tail(lines))
         IN  IF trim(Head(lines)) # <<>> THEN <<Head(lines)>> \o rest ELSE rest

\* variant of loadDictionary: the split lines are returned unfiltered
loadDictionaryUnfiltered(res) ==
    IF res.exists THEN SplitLines(res.data) ELSE <<>>

\* fs.readFileSync throws for an absent file and the catch returns []
loadDictionary(res) ==
    IF res.exists THEN FilterNonBlank(SplitLines(res.data)) ELSE <<>>

\* the bindings in scope in the scorer's module: its one require, its two
\* classes and the names Node gives every module
ModuleBindings == {"fs", "CipherCraft", "CipherForge",
                   "require", "module", "exports", "console"}

(***************************************************************************)
(* CipherCraft: random integers and the generator.                         *)
(***************************************************************************)
\* a JavaScript number that is an integer, and NaN
Integer(v) == [nan |-> FALSE, val |-> v]
NaN    == [nan |-> TRUE, val |-> 0]

\* x << 8 on a signed 32-bit value
ShiftLeft8(x) ==
    LET low24 == x % 16777216
    IN  IF low24 >= 8388608 THEN (low24 - 16777216) * 256 ELSE low24 * 256

\* x >>> 0: the unsigned 32-bit value of x, kept as two 16-bit halves
\* because it can exceed the largest integer TLC represents
ToUint32(x) == [hi |-> (x \div 65536) % 65536, lo |-> x % 65536]

RECURSIVE bytesLoop(_, _, _)
bytesLoop(result, bytes, k) ==
    IF k > Len(bytes) THEN result
    ELSE bytesLoop(ShiftLeft8(result) + bytes[k], bytes, k + 1)

\* (result << 8) | bytes[i] adds the byte: the shifted value has its low
\* eight bits clear
_bytesToNumber(bytes) == ToUint32(bytesLoop(0, bytes, 1))

\* u % max for an unsigned 32-bit u = hi * 65536 + lo and 0 < max < 2^15
Uint32Mod(u, max) == ((u.hi % max) * (65536 % max) + (u.lo % max)) % max

\* variant of RandInt: the upper end is taken as inclusive
RandIntInclusive(max, randomBytes) ==
    Integer(Uint32Mod(_bytesToNumber(randomBytes), max + 1))

\* the remainder operator of JavaScript: the sign follows the dividend
JsRem(a, b) ==
    LET r == a % b
    IN  IF a >= 0 \/ r = 0 THEN r ELSE r - b

\* variant of RandInt: the packed bytes are used as the signed 32-bit
\* value, without the conversion `>>> 0`
RandIntSigned(max, randomBytes) ==
    IF max = 0 THEN NaN
    ELSE Integer(JsRem(bytesLoop(0, randomBytes, 1), max))

\* randomBytes stands for the value of this._getRandomBytes(4)
RandInt(max, randomBytes) ==
    IF max = 0 THEN NaN
    ELSE Integer(Uint32Mod(_bytesToNumber(randomBytes), max))

\* no RandInt call recorded
NoRand == [max |-> 0, bytes |-> <<>>, result |-> NaN]

Undefined == <<"u", "n", "d", "e", "f", "i", "n", "e", "d">>

\* the text that `password += charset[randomIndex]` appends: the character
\* at the index, or "undefined" when the string has no such index
CharAtText(cs, index) ==
    IF ~index.nan /\ index.val >= 0 /\ index.val < Len(cs)
    THEN <<cs[index.val + 1]>>
    ELSE Undefined

\* the methods CipherCraft defines
CipherCraftMethods == {"CustomPassword", "BasicPassword", "Key", "RandInt",
                       "_getRandomBytes", "_bytesToNumber"}

charsets == [lowercase |-> LowerSeq,
             uppercase |-> UpperSeq,
             numeric   |-> DigitSeq,
             symbols   |-> <<"!","@","#","$","%","^","&","*","(",")","_","+",
                             "-","=","[","]","{","}","|",";",":",",",".","<",
                             ">","?">>]

KeyCharset == <<"a","b","c","d","e","f","0","1","2","3","4","5","6","7","8","9">>

\* an option of CustomPassword, or its default when the caller left it out
Option(options, key, default) ==
    IF key \in DOMAIN options THEN options[key] ELSE default

CustomCharset(options) ==
    Option(options, "customCharset", <<>>)
        \o (IF Option(options, "useLowercase", TRUE) THEN charsets.lowercase ELSE <<>>)
        \o (IF Option(options, "useUppercase", TRUE) THEN charsets.uppercase ELSE <<>>)
        \o (IF Option(options, "useNumbers", TRUE) THEN charsets.numeric ELSE <<>>)
        \o (IF Option(options, "useSymbols", TRUE) THEN charsets.symbols ELSE <<>>)

(***************************************************************************)
(* Inputs of the scorer.                                                   *)
(***************************************************************************)
Sigma == {"a", "b", "c", "A", "1", "2", "3", " ", "_", "~", "!"}

RECURSIVE StringsUpTo(_, _)
StringsUpTo(alphabet, n) ==
    IF n = 0 THEN {<<>>}
    ELSE LET shorter == StringsUpTo(alphabet, n - 1)
         IN  shorter \cup { Append(s, c) : s \in shorter, c \in alphabet }

RunOf(c, n) == [k \in 1..n |-> c]

ShortPasswords == StringsUpTo(Sigma, MaxShortLen)
RunPasswords   == { RunOf(c, n) : c \in Sigma, n \in 0..MaxRunLen }

\* candidate WordList entries: two that tokens can equal, one in upper
\* case (the file's lines are stored as they are)
ShortEntries == {<<"a">>, <<"b">>, <<"A">>}

\* five one-letter words and the passwords that list them with spaces
Words == <<"a", "b", "c", "d", "e">>

RECURSIVE JoinWords(_)
JoinWords(ws) ==
    IF ws = <<>> THEN <<>>
    ELSE IF Len(ws) = 1 THEN <<ws[1]>>
    ELSE <<ws[1], " ">> \o JoinWords(Tail(ws))

TokenPasswords == { JoinWords(ws) : ws \in StringsUpTo(Range(Words), MaxTokens) }

\* the WordLists holding the first k words, and one no token can match
PrefixDictionaries ==
    { { <<Words[j]>> : j \in 1..k } : k \in 0..Len(Words) }
        \cup { {<<"a", " ">>, <<"B">>} }

(***************************************************************************)
(* Scorer as a state machine: an instance holding `dictionary` is asked    *)
(* to Test `password`.                                                     *)
(***************************************************************************)
GenIdle ==
    /\ charset = <<>> /\ length = 0 /\ i = 0 /\ out = <<>> /\ genpc = "idle"
    /\ rand = NoRand

CtorIdle == resource = Missing /\ forge = "none"

Init ==
    /\ op = "init" /\ error = "none" /\ report = NoReport
    /\ password \in ShortPasswords \cup RunPasswords
    /\ dictionary \in SUBSET ShortEntries
    /\ GenIdle /\ CtorIdle

InitDict ==
    /\ op = "init" /\ error = "none" /\ report = NoReport
    /\ password \in TokenPasswords
    /\ dictionary \in PrefixDictionaries
    /\ GenIdle /\ CtorIdle

Test ==
    /\ op = "init"
    /\ op' = "Test"
    /\ report' = TestReport(password, dictionary)
    /\ UNCHANGED <<password, dictionary, error, genVars, ctorVars>>

Next == Test

Spec == Init /\ [][Next]_vars

NextDict == Test

SpecDict == InitDict /\ [][NextDict]_vars

Tested == op = "Test"

(***************************************************************************)
(* Properties of the scorer.                                               *)
(***************************************************************************)
SECURITY_THRESHOLD == 75

ClassesPresent(pw) ==
    { cls \in {"lower", "upper", "digit", "symbol"} :
        \E j \in DOMAIN pw :
            CASE cls = "lower"  -> pw[j] \in LowerChars
              [] cls = "upper"  -> pw[j] \in UpperChars
              [] cls = "digit"  -> pw[j] \in DigitChars
              [] cls = "symbol" -> pw[j] \notin WordChars }

AlnumChars == LowerChars \cup UpperChars \cup DigitChars

\* C7: the special-characters score is 25 exactly when the password holds
\* a character outside [A-Za-z0-9], and 0 otherwise.
C7_SpecialIffNonAlnum ==
    Tested =>
        LET sc == report.details.specialCharactersScore
        IN  /\ sc \in {Num(0), Num(25)}
            /\ sc = Num(25) <=> \E j \in DOMAIN password : password[j] \notin AlnumChars

\* the WordList entries among the tokens of the case-folded password
MatchedEntries(pw, dict) == Range(SplitNonWord(toLowerCase(pw))) \cap dict

\* C8: the dictionary score is max(0, 50 - 10 * n), n the number of
\* distinct tokens that are WordList entries.
C8_DistinctTokenPenalty ==
    Tested =>
        report.details.dictionaryScore =
            Num(Max(0, 50 - 10 * Cardinality(MatchedEntries(password, dictionary))))

MaxCharsetLen == 2   \* charsets over {"a", "b"} up to this length
MaxGenLen     == 3   \* requested lengths from -1 up to this

ByteInputs == {0, 1, 127, 128, 255}
RandomBytes == [1..4 -> ByteInputs]          \* this._getRandomBytes(4)

CharsetInputs == StringsUpTo({"a", "b"}, MaxCharsetLen)
LengthInputs  == -1..MaxGenLen

OptionKeys == {"length", "useLowercase", "useUppercase", "useNumbers",
               "useSymbols", "customCharset"}

FullOptions ==
    [length : 0..MaxGenLen, useLowercase : BOOLEAN, useUppercase : BOOLEAN,
     useNumbers : BOOLEAN, useSymbols : BOOLEAN,
     customCharset : {<<>>, <<"~">>}]

\* option objects: any subset of the keys, each with one of its values
OptionInputs ==
    { [key \in K |-> full[key]] : full \in FullOptions, K \in SUBSET OptionKeys }

ScorerIdle == password = <<>> /\ dictionary = {} /\ report = NoReport

InitGen ==
    /\ op = "init" /\ error = "none"
    /\ GenIdle /\ ScorerIdle /\ CtorIdle

BasicPasswordCall ==
    /\ genpc = "idle"
    /\ \E cs \in CharsetInputs, len \in LengthInputs :
          /\ charset' = cs
          /\ length' = len
    /\ op' = "BasicPassword"
    /\ out' = <<>>
    /\ i' = 0
    /\ genpc' = "loop"
    /\ UNCHANGED <<rand, error, scorerVars, ctorVars>>

BasicPasswordStep ==
    /\ genpc = "loop"
    /\ i < length
    /\ \E randomBytes \in RandomBytes :
          LET randomIndex == RandInt(Len(charset), randomBytes)
          IN  out' = out \o CharAtText(charset, randomIndex)
    /\ i' = i + 1
    /\ UNCHANGED <<op, charset, length, genpc, rand, error, scorerVars, ctorVars>>

BasicPasswordReturn ==
    /\ genpc = "loop"
    /\ ~(i < length)
    /\ genpc' = "returned"
    /\ UNCHANGED <<op, charset, length, i, out, rand, error, scorerVars, ctorVars>>

\* Key builds its charset and calls this.generatePassword, a method the
\* class does not define: the call throws a TypeError
Key ==
    /\ genpc = "idle"
    /\ \E given \in BOOLEAN, len \in 0..MaxGenLen :
          length' = IF given THEN len ELSE 32
    /\ charset' = KeyCharset
    /\ op' = "Key"
    /\ "generatePassword" \notin CipherCraftMethods
    /\ genpc' = "threw"
    /\ error' = "TypeError"
    /\ UNCHANGED <<i, out, rand, scorerVars, ctorVars>>

CustomPassword ==
    /\ genpc = "idle"
    /\ \E options \in OptionInputs :
          /\ length' = Option(options, "length", 12)
          /\ charset' = CustomCharset(options)
    /\ op' = "CustomPassword"
    /\ "generatePassword" \notin CipherCraftMethods
    /\ genpc' = "threw"
    /\ error' = "TypeError"
    /\ UNCHANGED <<i, out, rand, scorerVars, ctorVars>>

MaxRandMax == 16     \* arguments of RandInt from 1 up to this

\* RandInt called on its own
RandIntCall ==
    /\ genpc = "idle"
    /\ \E max \in 1..MaxRandMax, randomBytes \in RandomBytes :
          rand' = [max |-> max, bytes |-> randomBytes,
                   result |-> RandInt(max, randomBytes)]
    /\ op' = "RandInt"
    /\ genpc' = "returned"
    /\ UNCHANGED <<charset, length, i, out, error, scorerVars, ctorVars>>

NextGen ==
    \/ RandIntCall
    \/ BasicPasswordCall
    \/ BasicPasswordStep
    \/ BasicPasswordReturn
    \/ Key
    \/ CustomPassword

SpecGen == InitGen /\ [][NextGen]_vars

(***************************************************************************)
(* Constructing the scorer.                                                *)
(***************************************************************************)
MaxResourceLen == 3  \* dictionary files up to this many characters

ResourceInputs ==
    {Missing} \cup { File(d) : d \in StringsUpTo({"a", "A", " ", "\n", "\r"},
                                                MaxResourceLen) }

InitCtor ==
    /\ op = "init" /\ error = "none"
    /\ resource \in ResourceInputs
    /\ forge = "none"
    /\ GenIdle /\ ScorerIdle

\* new CipherForge(): the first statement reads `path`, which the module
\* never binds, so a ReferenceError leaves the constructor before
\* loadDictionary runs
Construct ==
    /\ forge = "none"
    /\ op' = "new"
    /\ IF "path" \notin ModuleBindings
       THEN /\ forge' = "threw"
            /\ error' = "ReferenceError"
            /\ UNCHANGED dictionary
       ELSE /\ forge' = "constructed"
            /\ dictionary' = Range(loadDictionary(resource))
            /\ UNCHANGED error
    /\ UNCHANGED <<password, report, resource, genVars>>

NextCtor == Construct

SpecCtor == InitCtor /\ [][NextCtor]_vars

C2_InvalidArgumentRejected ==
    (op = "BasicPassword" /\ ((charset = <<>> /\ length > 0) \/ length < 0)) =>
        genpc # "returned"

\* C3: Key returns `length` characters (32 by default) of its hexadecimal
\* charset and CustomPassword returns `length` characters (12 by default)
\* of the charset built from its options.
C3_DerivedDelegate ==
    (op \in {"Key", "CustomPassword"}) =>
        /\ genpc \in {"loop", "returned"}
        /\ genpc = "returned" =>
              /\ Len(out) = length
              /\ \A k \in DOMAIN out : out[k] \in Range(charset)

\* C10: constructing the scorer never throws; with the dictionary file
\* missing the scorer is constructed with an empty WordList.
C10_ConstructorNeverThrows ==
    (op = "new") =>
        /\ forge = "constructed"
        /\ ~resource.exists => dictionary = {}

\* the big-endian value of four bytes reduced modulo max, by Horner's rule
BigEndianMod(b, max) ==
    ((((((b[1] % max) * 256 + b[2]) % max) * 256 + b[3]) % max) * 256 + b[4]) % max

\* C14: for max >= 1 and any four random bytes, RandInt returns the
\* big-endian unsigned 32-bit value of the bytes modulo max, an integer in
\* 0..max-1, also when the first byte is 128 or more.
C14_RandIntBigEndianMod ==
    (op = "RandInt") =>
        /\ ~rand.result.nan
        /\ rand.result.val = BigEndianMod(rand.bytes, rand.max)
        /\ rand.result.val >= 0 /\ rand.result.val < rand.max

\* 0xFFFFFFFF, negative as a signed 32-bit value, reduced modulo 7
C14_Witness ==
    /\ op = "RandInt"
    /\ rand.bytes = <<255, 255, 255, 255>> /\ rand.max = 7
    /\ rand.result = Integer(3)

\* the part of the reported diversity score that the letter and digit
\* classes of the password do not account for is the symbol credit
SymbolCredited ==
    report.details.diversityScore =
        Num(25 * Cardinality(ClassesPresent(password) \ {"symbol"}) + 25)

SpecialScored == report.details.specialCharactersScore = Num(25)

\* C15: for every password the special-characters score is 25 exactly
\* when the diversity score counts the symbol class.
C15_DetectorsAgree ==
    Tested => (SpecialScored <=> SymbolCredited)

(***************************************************************************)
(* The WordList as loadDictionary builds it: the file is read, the Set of  *)
(* its lines becomes `dictionary`, and a password is tested against it.    *)
(***************************************************************************)
MaxLoadPwLen == 2    \* passwords tested against a loaded WordList

LoadPasswords == StringsUpTo({"a", "A", " "}, MaxLoadPwLen)

InitLoad ==
    /\ op = "init" /\ error = "none" /\ report = NoReport
    /\ resource \in ResourceInputs
    /\ password \in LoadPasswords
    /\ dictionary = {}
    /\ forge = "none"
    /\ GenIdle

\* this.dictionary = new Set(this.loadDictionary())
LoadDictionary ==
    /\ op = "init"
    /\ op' = "loadDictionary"
    /\ dictionary' = Range(loadDictionary(resource))
    /\ UNCHANGED <<password, report, error, genVars, ctorVars>>

TestLoaded ==
    /\ op = "loadDictionary"
    /\ op' = "Test"
    /\ report' = TestReport(password, dictionary)
    /\ UNCHANGED <<password, dictionary, error, genVars, ctorVars>>

NextLoad == LoadDictionary \/ TestLoaded

SpecLoad == InitLoad /\ [][NextLoad]_vars

TrimmedLowercasedLines(res) ==
    IF res.exists
    THEN { toLowerCase(trim(l)) : l \in Range(SplitLines(res.data)) } \ {<<>>}
    ELSE {}

\* C13: the WordList holds every line of the file trimmed and lowercased
\* and nothing else, so a token matches a line whatever the line's letter
\* case and surrounding whitespace.
C13_EntriesTrimmedLowercased ==
    (op \in {"loadDictionary", "Test"}) =>
        /\ dictionary = TrimmedLowercasedLines(resource)
        /\ Tested =>
              report.details.dictionaryScore =
                  calculateDictionaryScore(password,
                                           TrimmedLowercasedLines(resource))

(***************************************************************************)
(* Test called with any JavaScript value.  A value is a record tagged      *)
(* with its type; only a string carries characters.                        *)
(***************************************************************************)
StringValue(str) == [type |-> "string", str |-> str]
NumberValue(num) == [type |-> "number", num |-> num]
ArrayValue(items) == [type |-> "array", items |-> items]
BooleanValue(b)  == [type |-> "boolean", bool |-> b]
NullValue        == [type |-> "null"]
UndefinedValue   == [type |-> "undefined"]
ObjectValue      == [type |-> "object"]

\* reading a property of null or undefined throws
IsNullish(v) == v.type \in {"null", "undefined"}

\* only strings have a toLowerCase method
HasToLowerCase(v) == v.type = "string"

Thrown(name) == [error |-> name, report |-> NoReport]
Returned(r)  == [error |-> "none", report |-> r]

RECURSIVE JoinComma(_)
JoinComma(items) ==
    IF items = <<>> THEN <<>>
    ELSE IF Len(items) = 1 THEN items[1]
    ELSE items[1] \o <<",">> \o JoinComma(Tail(items))

\* String(v)
ToStringValue(v) ==
    CASE v.type = "string"    -> v.str
      [] v.type = "number"    -> <<DigitSeq[v.num + 1]>>
      [] v.type = "array"     -> JoinComma(v.items)
      [] v.type = "boolean"   -> IF v.bool THEN <<"t", "r", "u", "e">>
                                 ELSE <<"f", "a", "l", "s", "e">>
      [] v.type = "null"      -> <<"n", "u", "l", "l">>
      [] v.type = "undefined" -> Undefined
      [] v.type = "object"    -> <<"[", "o", "b", "j", "e", "c", "t", " ",
                                   "O", "b", "j", "e", "c", "t", "]">>

\* variant of Test: the argument is first converted with String(password)
TestValueCoerced(v, dict) == Returned(TestReport(ToStringValue(v), dict))

\* Test(v): calculateLengthScore reads v.length, which throws for null and
\* undefined; the two regular-expression scores convert v to a string and
\* cannot throw; calculateDictionaryScore calls v.toLowerCase(), which
\* throws for every value that is not a string; the report is built last
TestValue(v, dict) ==
    IF IsNullish(v) THEN Thrown("TypeError")
    ELSE IF ~HasToLowerCase(v) THEN Thrown("TypeError")
    ELSE Returned(TestReport(v.str, dict))

MaxValueLen == 2     \* string and array arguments up to this length
MaxNumber   == 9     \* number arguments from 0 up to this

ValueInputs ==
    { StringValue(str) : str \in StringsUpTo(Sigma, MaxValueLen) }
        \cup { NumberValue(num) : num \in 0..MaxNumber }
        \cup { ArrayValue(items) :
                  items \in StringsUpTo({<<"a">>, <<"1", "!">>}, MaxValueLen) }
        \cup { BooleanValue(b) : b \in BOOLEAN }
        \cup { NullValue, UndefinedValue, ObjectValue }

InitArg ==
    /\ op = "init" /\ error = "none" /\ report = NoReport
    /\ password \in ValueInputs
    /\ dictionary \in SUBSET ShortEntries
    /\ GenIdle /\ CtorIdle

TestArgument ==
    /\ op = "init"
    /\ op' = "Test"
    /\ LET outcome == TestValue(password, dictionary)
       IN  /\ error' = outcome.error
           /\ report' = outcome.report
    /\ UNCHANGED <<password, dictionary, genVars, ctorVars>>

NextArg == TestArgument

SpecArg == InitArg /\ [][NextArg]_vars

====
